---- MODULE Spec2Model ----
(***************************************************************************)
(* RTDCWriter (dclab/rtdc_dataset/writer.py): the writer of RT-DC          *)
(* measurement data into an HDF5 container.                                *)
(*                                                                         *)
(* The container is modelled by its content: the set of top-level groups,  *)
(* the members of /events and /logs (functions from names to objects) and  *)
(* the root attributes.  An HDF5 dataset is a record with its trailing     *)
(* shape and its rows (one value per event); a group is a record holding   *)
(* a function from names to datasets.                                      *)
(***************************************************************************)
EXTENDS Integers, Sequences, FiniteSets, TLC

VARIABLES
    pc,       \* "new": no writer constructed yet; "open": writer constructed
    mode,     \* self.mode
    target,   \* how path_or_h5file was given: "path" or "handle"
    top,      \* names of the groups under the root of self.h5file
    events,   \* members of /events: name -> dataset or group
    logs,     \* members of /logs: name -> text dataset
    attrs,    \* root attributes: "section:key" -> value
    disk,     \* content of the target before the writer was constructed
    before,   \* content of the container when the last call started
    hist,     \* the calls made on the writer, in order, with their outcome
    callerMeta \* the caller's own meta mapping after the last store_metadata

vars == <<pc, mode, target, top, events, logs, attrs, disk, before, hist, callerMeta>>

----------------------------------------------------------------------------
(* Bounds of the model *)

\* calls made on one writer
MaxCalls == 3
\* events in one batch of scalar, image, trace or ragged data
MaxBatch == 2

----------------------------------------------------------------------------
(* Program constants *)

CHUNK_SIZE == 100

\* fill value of a resized dataset's new rows (HDF5 default)
Fill == 0

Modes == {"append", "replace", "reset"}

NoError == "ok"

Empty == [n \in {} |-> 0]

----------------------------------------------------------------------------
(* The feature registry (dclab.definitions) *)

ScalarFeatures == {"deform", "area_um"}

ImageFeatures == {"image", "image_bg", "mask"}

FLUOR_TRACES == {"fl1_median", "fl1_raw", "fl2_median", "fl2_raw",
                 "fl3_median", "fl3_raw"}

feature_exists(feat) ==
    feat \in ScalarFeatures \cup ImageFeatures \cup {"contour", "trace"}

scalar_feature_exists(feat) == feat \in ScalarFeatures

\* the metadata sections and their keys (dclab.definitions.CFG_METADATA)
CFG_METADATA ==
    [sec \in {"experiment", "setup"} |->
        IF sec = "setup" THEN {"identifier", "software version"}
        ELSE {"sample"}]

config_key_exists(sec, ck) ==
    sec \in DOMAIN CFG_METADATA /\ ck \in CFG_METADATA[sec]

\* dclab's version string (dclab._version.version)
version == "0.32.4"

----------------------------------------------------------------------------
(* Generic helpers *)

Max(a, b) == IF a >= b THEN a ELSE b

Put(f, k, v) == [n \in DOMAIN f \cup {k} |-> IF n = k THEN v ELSE f[n]]

Del(f, k) == [n \in DOMAIN f \ {k} |-> f[n]]

\* a batch of n rows written by call number c: every row is a distinct value
Batch(c, n) == [i \in 1..n |-> 1000 * c + i]

----------------------------------------------------------------------------
(* numpy coercions *)

(* An array is [ndim, trail, rows, dtype]: rows has one entry per index of  *)
(* the leading dimension and trail is shape[1:].  The sub-array below one  *)
(* leading index is uniform and is represented by the value of its         *)
(* elements; a 0-d array has its value in rows.                            *)

\* np.atleast_1d: a 0-d value becomes an array of one event
atleast_1d(data) ==
    IF data.ndim = 0
    THEN [ndim |-> 1, trail |-> <<>>, rows |-> <<data.rows>>,
          dtype |-> data.dtype]
    ELSE data

\* np.atleast_2d: a 0-d value becomes shape (1, 1), a 1-d array one row
atleast_2d(data) ==
    IF data.ndim = 0
    THEN [ndim |-> 2, trail |-> <<1>>, rows |-> <<data.rows>>,
          dtype |-> data.dtype]
    ELSE IF data.ndim = 1
    THEN [ndim |-> 2, trail |-> <<Len(data.rows)>>, rows |-> <<data.rows[1]>>,
          dtype |-> data.dtype]
    ELSE data

\* data.reshape(1, data.shape[0], data.shape[1]) of a 2-d array
reshape_single(data) ==
    [ndim |-> 3, trail |-> <<Len(data.rows)>> \o data.trail,
     rows |-> <<data.rows[1]>>, dtype |-> data.dtype]

\* np.asarray(data, dtype=np.uint8) * 255
bool_to_uint8(data) ==
    [ndim |-> data.ndim, trail |-> data.trail,
     rows |-> [i \in 1..Len(data.rows) |-> data.rows[i] * 255],
     dtype |-> "uint8"]

\* "{}".format(n): the decimal digits of n >= 0
Digit(d) == CASE d = 0 -> "0" [] d = 1 -> "1" [] d = 2 -> "2" [] d = 3 -> "3"
              [] d = 4 -> "4" [] d = 5 -> "5" [] d = 6 -> "6" [] d = 7 -> "7"
              [] d = 8 -> "8" [] d = 9 -> "9"

RECURSIVE format(_)
format(n) == IF n < 10 THEN Digit(n) ELSE format(n \div 10) \o Digit(n % 10)

----------------------------------------------------------------------------
(* write_ndarray *)

\* dset[a:b] = vals on the rows of a dataset (Python slice, zero based);
\* hits counts how often each index was written
SliceAssign(st, a, b, vals) ==
    [rows |-> [i \in 1..Len(st.rows) |->
                  IF i > a /\ i <= b THEN vals[i - a] ELSE st.rows[i]],
     hits |-> [i \in 1..Len(st.rows) |->
                  IF i > a /\ i <= b THEN st.hits[i] + 1 ELSE st.hits[i]]]

\* data[a:b]
Slice(rows, a, b) == [i \in 1..(b - a) |-> rows[a + i]]

\* the loop over the full blocks, from block ii on
RECURSIVE WriteBlocks(_, _, _, _, _)
WriteBlocks(st, offset, rows, ii, num_chunks) ==
    IF ii >= num_chunks THEN st
    ELSE LET start == ii * CHUNK_SIZE
             stop == start + CHUNK_SIZE
         IN WriteBlocks(SliceAssign(st, offset + start, offset + stop,
                                    Slice(rows, start, stop)),
                        offset, rows, ii + 1, num_chunks)

\* WriteRemainder with the remainder's stop taken for its length
WriteRemainder_ShortStop(st, offset, rows, num_chunks) ==
    LET num_remain == Len(rows) % CHUNK_SIZE
        start_e == num_chunks * CHUNK_SIZE
        stop_e == num_remain
    IN IF num_remain # 0 /\ stop_e > start_e
       THEN SliceAssign(st, offset + start_e, offset + stop_e,
                        Slice(rows, start_e, stop_e))
       ELSE st

\* the remainder block
WriteRemainder(st, offset, rows, num_chunks) ==
    LET num_remain == Len(rows) % CHUNK_SIZE
        start_e == num_chunks * CHUNK_SIZE
        stop_e == start_e + num_remain
    IN IF num_remain # 0
       THEN SliceAssign(st, offset + start_e, offset + stop_e,
                        Slice(rows, start_e, stop_e))
       ELSE st

\* StoreRows with the 1-d data written from index 0
StoreRows_NoOffset(st, offset, data) ==
    IF data.ndim = 1
    THEN SliceAssign(st, 0, Len(data.rows), data.rows)
    ELSE LET num_chunks == Len(data.rows) \div CHUNK_SIZE
         IN WriteRemainder(WriteBlocks(st, offset, data.rows, 0, num_chunks),
                           offset, data.rows, num_chunks)

\* the rows of the dataset after the data were stored at offset
\* (the dataset has been resized to offset + len(data) rows)
StoreRows(st, offset, data) ==
    IF data.ndim = 1
    THEN SliceAssign(st, offset, Len(st.rows), data.rows)
    ELSE LET num_chunks == Len(data.rows) \div CHUNK_SIZE
         IN WriteRemainder(WriteBlocks(st, offset, data.rows, 0, num_chunks),
                           offset, data.rows, num_chunks)

\* whether a slice assignment of data into dset is attempted and cannot be
\* broadcast (h5py raises)
Mismatch(dset, data) ==
    /\ dset.trail # data.trail
    /\ Len(data.rows) > 0

\* write_ndarray(group, name, data): the group afterwards, the error raised
\* (if any) and how often each row of the dataset was written
write_ndarray(group, name, data) ==
    LET isNew == name \notin DOMAIN group
        offset == IF isNew THEN 0 ELSE Len(group[name].rows)
        trail == IF isNew THEN data.trail ELSE group[name].trail
        old == IF isNew THEN <<>> ELSE group[name].rows
        sized == [rows |-> old \o [i \in 1..Len(data.rows) |-> Fill],
                  hits |-> [i \in 1..(offset + Len(data.rows)) |-> 0]]
        bad == ~isNew /\ Mismatch(group[name], data)
        st == IF bad THEN sized ELSE StoreRows(sized, offset, data)
        dset == [kind |-> "dataset", trail |-> trail, rows |-> st.rows,
                 dtype |-> IF isNew THEN data.dtype ELSE group[name].dtype,
                 chunks |-> <<CHUNK_SIZE>> \o trail,
                 tags |-> IF isNew THEN {} ELSE group[name].tags]
    IN [group |-> Put(group, name, dset),
        err |-> IF bad THEN "broadcast" ELSE NoError,
        offset |-> offset,
        hits |-> st.hits]

----------------------------------------------------------------------------
(* write_image_grayscale *)

ImageTags == {"CLASS=IMAGE", "IMAGE_VERSION=1.2",
              "IMAGE_SUBCLASS=IMAGE_GRAYSCALE"}

write_image_grayscale(group, name, data) ==
    LET d2 == atleast_2d(data)
        d3 == IF d2.ndim = 2 THEN reshape_single(d2) ELSE d2
        d8 == IF d3.dtype = "bool" THEN bool_to_uint8(d3) ELSE d3
        w == write_ndarray(group, name, d8)
    IN IF w.err # NoError THEN w
       ELSE [w EXCEPT !.group[name].tags = ImageTags]

----------------------------------------------------------------------------
(* write_ragged *)

\* the loop over the events of data, from event ii on
RECURSIVE CreateEntries(_, _, _, _)
CreateEntries(grp, curid, items, ii) ==
    IF ii > Len(items) THEN [items |-> grp, err |-> NoError]
    ELSE LET nm == format(curid + ii - 1)
             cc == items[ii]
         IN IF nm \in DOMAIN grp
            THEN [items |-> grp, err |-> "name already exists"]
            ELSE CreateEntries(
                    Put(grp, nm, [kind |-> "dataset", trail |-> cc.trail,
                                  rows |-> cc.rows, dtype |-> cc.dtype,
                                  chunks |-> <<Len(cc.rows)>> \o cc.trail,
                                  tags |-> {}]),
                    curid, items, ii + 1)

\* write_ragged with the entries numbered from 0 in every call
write_ragged_FromZero(group, name, data) ==
    LET items == IF data.islist THEN data.list ELSE <<data.array>>
        grp == IF name \in DOMAIN group THEN group[name].items ELSE Empty
        r == CreateEntries(grp, 0, items, 1)
    IN [group |-> Put(group, name, [kind |-> "group", items |-> r.items]),
        err |-> r.err, offset |-> 0, hits |-> <<>>]

\* write_ragged(group, name, data); data is a list of arrays,
\* [islist |-> TRUE, list |-> ...], or one array by itself,
\* [islist |-> FALSE, array |-> ...]
write_ragged(group, name, data) ==
    LET items == IF data.islist THEN data.list ELSE <<data.array>>
        grp == IF name \in DOMAIN group THEN group[name].items ELSE Empty
        curid == Cardinality(DOMAIN grp)
        r == CreateEntries(grp, curid, items, 1)
    IN [group |-> Put(group, name, [kind |-> "group", items |-> r.items]),
        err |-> r.err, offset |-> curid, hits |-> <<>>]

----------------------------------------------------------------------------
(* store_feature *)

\* data.keys() of trace data: the channel names in the mapping's order
Keys(data) == {data[i].name : i \in 1..Len(data)}

\* ReplaceDelete that deletes the trace group like any other feature
ReplaceDelete_WholeGroup(m, ev, feat, data) ==
    IF feat \in DOMAIN ev /\ m = "replace" THEN Del(ev, feat) ELSE ev

\* ReplaceDelete that deletes only the channels of a trace
ReplaceDelete_TraceOnly(m, ev, feat, data) ==
    IF feat \in DOMAIN ev /\ m = "replace" /\ feat = "trace"
    THEN [ev EXCEPT !["trace"].items =
             [n \in DOMAIN ev["trace"].items \ Keys(data) |->
                 ev["trace"].items[n]]]
    ELSE ev

\* "replace data?": what is deleted from /events before the write
ReplaceDelete(m, ev, feat, data) ==
    IF feat \in DOMAIN ev /\ m = "replace"
    THEN IF feat = "trace"
         THEN [ev EXCEPT !["trace"].items =
                  [n \in DOMAIN ev["trace"].items \ Keys(data) |->
                      ev["trace"].items[n]]]
         ELSE Del(ev, feat)
    ELSE ev

\* TraceLoop that skips a channel of unknown name instead of raising
RECURSIVE TraceLoop_Skip(_, _, _)
TraceLoop_Skip(ev, data, i) ==
    IF i > Len(data)
    THEN [events |-> ev, err |-> NoError, offset |-> 0, hits |-> <<>>]
    ELSE IF data[i].name \notin FLUOR_TRACES
    THEN TraceLoop_Skip(ev, data, i + 1)
    ELSE LET grp == IF "trace" \in DOMAIN ev THEN ev["trace"].items
                    ELSE Empty
             w == write_ndarray(grp, data[i].name, atleast_2d(data[i].arr))
             ev2 == Put(ev, "trace", [kind |-> "group", items |-> w.group])
         IN IF w.err # NoError
            THEN [events |-> ev2, err |-> w.err, offset |-> w.offset,
                  hits |-> w.hits]
            ELSE TraceLoop_Skip(ev2, data, i + 1)

\* the loop over the channels of trace data, from channel i on
RECURSIVE TraceLoop(_, _, _)
TraceLoop(ev, data, i) ==
    IF i > Len(data)
    THEN [events |-> ev, err |-> NoError, offset |-> 0, hits |-> <<>>]
    ELSE IF data[i].name \notin FLUOR_TRACES
    THEN [events |-> ev, err |-> "unknown trace key", offset |-> 0,
          hits |-> <<>>]
    ELSE LET grp == IF "trace" \in DOMAIN ev THEN ev["trace"].items
                    ELSE Empty
             w == write_ndarray(grp, data[i].name, atleast_2d(data[i].arr))
             ev2 == Put(ev, "trace", [kind |-> "group", items |-> w.group])
         IN IF w.err # NoError
            THEN [events |-> ev2, err |-> w.err, offset |-> w.offset,
                  hits |-> w.hits]
            ELSE TraceLoop(ev2, data, i + 1)

\* the dispatch on the kind of feature, on /events after the deletion
Dispatch(ev, feat, data) ==
    IF scalar_feature_exists(feat)
    THEN LET w == write_ndarray(ev, feat, atleast_1d(data))
         IN [events |-> w.group, err |-> w.err, offset |-> w.offset,
             hits |-> w.hits]
    ELSE IF feat = "contour"
    THEN LET w == write_ragged(ev, feat, data)
         IN [events |-> w.group, err |-> w.err, offset |-> w.offset,
             hits |-> w.hits]
    ELSE IF feat \in {"image", "image_bg", "mask"}
    THEN LET w == write_image_grayscale(ev, feat, data)
         IN [events |-> w.group, err |-> w.err, offset |-> w.offset,
             hits |-> w.hits]
    ELSE IF feat = "trace"
    THEN TraceLoop(ev, data, 1)
    ELSE [events |-> ev, err |-> "no rule to store feature", offset |-> 0,
          hits |-> <<>>]

\* store_feature(feat, data) on a container with groups tp and /events ev
store_feature(m, tp, ev, feat, data) ==
    IF ~feature_exists(feat)
    THEN [top |-> tp, events |-> ev, err |-> "undefined feature",
          offset |-> 0, hits |-> <<>>]
    ELSE LET r == Dispatch(ReplaceDelete(m, ev, feat, data), feat, data)
         IN [top |-> tp \cup {"events"}, events |-> r.events, err |-> r.err,
             offset |-> r.offset, hits |-> r.hits]

----------------------------------------------------------------------------
(* store_metadata *)

(* meta is a sequence of sections [sec, items] in the mapping's order,     *)
(* items a sequence of [key, value] in the section's order; a value is     *)
(* [kind, txt] with kind "str" or "bytes".                                 *)

\* the position of section sec in meta, 0 when meta has no such section
SecPos(meta, sec) ==
    IF \E i \in 1..Len(meta) : meta[i].sec = sec
    THEN CHOOSE i \in 1..Len(meta) : meta[i].sec = sec
    ELSE 0

\* the position of key ck in the items of a section, 0 when absent
KeyPos(items, ck) ==
    IF \E i \in 1..Len(items) : items[i].key = ck
    THEN CHOOSE i \in 1..Len(items) : items[i].key = ck
    ELSE 0

\* "setup" in meta and "software version" in meta["setup"]
HasVersion(meta) ==
    /\ SecPos(meta, "setup") # 0
    /\ KeyPos(meta[SecPos(meta, "setup")].items, "software version") # 0

\* meta["setup"]["software version"]
GivenVersion(meta) ==
    LET items == meta[SecPos(meta, "setup")].items
    IN items[KeyPos(items, "software version")].value

\* the keys of a section are checked from key j on
RECURSIVE CheckKeys(_, _, _)
CheckKeys(sec, items, j) ==
    IF j > Len(items) THEN NoError
    ELSE IF ~config_key_exists(sec, items[j].key)
    THEN "meta key not defined"
    ELSE CheckKeys(sec, items, j + 1)

\* CheckMeta that ends the check at the user section
RECURSIVE CheckMeta_StopAtUser(_, _)
CheckMeta_StopAtUser(meta, i) ==
    IF i > Len(meta) THEN NoError
    ELSE IF meta[i].sec = "user" THEN NoError
    ELSE IF meta[i].sec \notin DOMAIN CFG_METADATA
    THEN "meta section not defined"
    ELSE LET e == CheckKeys(meta[i].sec, meta[i].items, 1)
         IN IF e # NoError THEN e ELSE CheckMeta_StopAtUser(meta, i + 1)

\* "Check meta data": the sections are checked from section i on
RECURSIVE CheckMeta(_, _)
CheckMeta(meta, i) ==
    IF i > Len(meta) THEN NoError
    ELSE IF meta[i].sec = "user" THEN CheckMeta(meta, i + 1)
    ELSE IF meta[i].sec \notin DOMAIN CFG_METADATA
    THEN "meta section not defined"
    ELSE LET e == CheckKeys(meta[i].sec, meta[i].items, 1)
         IN IF e # NoError THEN e ELSE CheckMeta(meta, i + 1)

\* f"{value}": a str as it is, bytes as their repr
fstring(value) ==
    IF value.kind = "bytes" THEN "b'" \o value.txt \o "'" ELSE value.txt

\* meta[sec][ck] = value: a new section or key goes to the end
SetItem(meta, sec, ck, value) ==
    LET m1 == IF SecPos(meta, sec) = 0
              THEN Append(meta, [sec |-> sec, items |-> <<>>])
              ELSE meta
        p == SecPos(m1, sec)
        q == KeyPos(m1[p].items, ck)
        it == [key |-> ck, value |-> value]
    IN [m1 EXCEPT ![p].items =
           IF q = 0 THEN Append(@, it) ELSE [@ EXCEPT ![q] = it]]

\* whether the version string is updated
BrandNeeded(at, meta) ==
    \/ "setup:software version" \notin DOMAIN at
    \/ HasVersion(meta)

\* "update version": meta with the software version branded
Brand(at, meta, version_brand) ==
    IF version_brand /\ BrandNeeded(at, meta)
    THEN LET thisver == "dclab " \o version
             newver == IF HasVersion(meta)
                       THEN fstring(GivenVersion(meta)) \o " | " \o thisver
                       ELSE thisver
         IN SetItem(meta, "setup", "software version",
                    [kind |-> "str", txt |-> newver])
    ELSE meta

\* value.decode("utf-8") of bytes, then the section's converter (str)
Converted(value) == value.txt

\* "Write metadata": the keys of section i are written from key j on
RECURSIVE WriteKeys(_, _, _, _)
WriteKeys(at, sec, items, j) ==
    IF j > Len(items) THEN [attrs |-> at, err |-> NoError]
    ELSE LET idk == sec \o ":" \o items[j].key
         IN IF sec # "user" /\ ~config_key_exists(sec, items[j].key)
            THEN [attrs |-> at, err |-> "no converter"]
            ELSE WriteKeys(Put(at, idk, Converted(items[j].value)),
                           sec, items, j + 1)

RECURSIVE WriteMeta(_, _, _)
WriteMeta(at, meta, i) ==
    IF i > Len(meta) THEN [attrs |-> at, err |-> NoError]
    ELSE LET w == WriteKeys(at, meta[i].sec, meta[i].items, 1)
         IN IF w.err # NoError THEN w ELSE WriteMeta(w.attrs, meta, i + 1)

\* store_metadata(meta, version_brand) on root attributes at: the attributes
\* afterwards, the error raised, and the caller's mapping (meta is
\* deep-copied first, the branding acts on the copy)
store_metadata(at, meta, version_brand) ==
    LET e == CheckMeta(meta, 1)
    IN IF e # NoError
       THEN [attrs |-> at, err |-> e, caller |-> meta]
       ELSE LET w == WriteMeta(at, Brand(at, meta, version_brand), 1)
            IN [attrs |-> w.attrs, err |-> w.err, caller |-> meta]

----------------------------------------------------------------------------
(* write_text, store_log *)

(* lines is one str or bytes value, [single |-> TRUE, line |-> ...], or a  *)
(* list of them, [single |-> FALSE, list |-> ...]; a str is                *)
(* [kind |-> "str", chars |-> code points], bytes are                      *)
(* [kind |-> "bytes", chars |-> byte values].                              *)

\* the UTF-8 bytes of one code point below 65536
Utf8(cp) ==
    IF cp < 128 THEN <<cp>>
    ELSE IF cp < 2048 THEN <<192 + (cp \div 64), 128 + (cp % 64)>>
    ELSE <<224 + (cp \div 4096), 128 + ((cp \div 64) % 64), 128 + (cp % 64)>>

\* line.encode("UTF-8")
RECURSIVE encode(_)
encode(chars) ==
    IF chars = <<>> THEN <<>>
    ELSE IF Len(chars) = 1 THEN Utf8(chars[1])
    ELSE LET h == Len(chars) \div 2
         IN encode(SubSeq(chars, 1, h)) \o encode(SubSeq(chars, h + 1, Len(chars)))

\* the bytes of a line
LineBytes(line) ==
    IF line.kind = "bytes" THEN line.chars ELSE encode(line.chars)

\* max_length after the loop over the lines, from line i on
RECURSIVE MaxLength(_, _, _)
MaxLength(lines_as_bytes, i, max_length) ==
    IF i > Len(lines_as_bytes) THEN max_length
    ELSE MaxLength(lines_as_bytes, i + 1,
                   Max(max_length, Len(lines_as_bytes[i])))

\* what an element of dtype S<width> holds after txt_dset[k] = lbytes
FixedWidth(lbytes, width) ==
    IF Len(lbytes) > width THEN SubSeq(lbytes, 1, width) ELSE lbytes

\* write_text(group, name, lines) in mode m
write_text(m, group, name, lines) ==
    LET g1 == IF name \in DOMAIN group /\ m = "replace"
              THEN Del(group, name) ELSE group
        ls == IF lines.single THEN <<lines.line>> ELSE lines.list
        lnum == Len(ls)
        lines_as_bytes == [i \in 1..lnum |-> LineBytes(ls[i])]
        max_length == MaxLength(lines_as_bytes, 1, 100)
        isNew == name \notin DOMAIN g1
        width == IF isNew THEN max_length ELSE g1[name].width
        line_offset == IF isNew THEN 0 ELSE Len(g1[name].rows)
        old == IF isNew THEN <<>> ELSE g1[name].rows
    IN [group |-> Put(g1, name,
                      [kind |-> "dataset", width |-> width,
                       rows |-> old \o [i \in 1..lnum |->
                                  FixedWidth(lines_as_bytes[i], width)]]),
        offset |-> line_offset]

----------------------------------------------------------------------------
(* The container before the writer is constructed *)

NoContent == [top |-> {}, events |-> Empty, logs |-> Empty, attrs |-> Empty]

Dataset(trail, rows, dtype, tags) ==
    [kind |-> "dataset", trail |-> trail, rows |-> rows, dtype |-> dtype,
     chunks |-> <<CHUNK_SIZE>> \o trail, tags |-> tags]

\* a file written by an earlier writer session
OldContent ==
    [top |-> {"events", "logs"},
     events |->
        [n \in {"deform", "mask", "contour", "trace"} |->
            CASE n = "deform" -> Dataset(<<>>, <<901, 902>>, "float64", {})
              [] n = "mask" -> Dataset(<<2, 2>>, <<255, 0>>, "uint8", ImageTags)
              [] n = "contour" ->
                    [kind |-> "group",
                     items |-> [k \in {"0"} |->
                        [kind |-> "dataset", trail |-> <<2>>,
                         rows |-> <<903>>, dtype |-> "int64",
                         chunks |-> <<1, 2>>, tags |-> {}]]]
              [] n = "trace" ->
                    [kind |-> "group",
                     items |-> [k \in {"fl1_raw", "fl2_raw"} |->
                        Dataset(<<3>>, <<904, 905>>, "int16", {})]]],
     logs |-> [n \in {"dclab-log"} |->
                 [kind |-> "dataset", width |-> 100,
                  rows |-> <<<<111, 108, 100>>>>]],
     attrs |-> [k \in {"setup:software version"} |->
                  "ShapeIn 2.0 | dclab " \o version]]

PriorContents == {NoContent, OldContent}

Content == [top |-> top, events |-> events, logs |-> logs, attrs |-> attrs]

----------------------------------------------------------------------------
(* Actions *)

Init ==
    /\ pc = "new"
    /\ mode = "unset"
    /\ target = "unset"
    /\ disk \in PriorContents
    /\ top = disk.top
    /\ events = disk.events
    /\ logs = disk.logs
    /\ attrs = disk.attrs
    /\ before = disk
    /\ hist = <<>>
    /\ callerMeta = Empty

\* what h5py.File(path, mode="w" / "a") or the given handle holds
Opened(m, t, c) ==
    IF t = "path" /\ m = "reset" THEN NoContent ELSE c

\* RTDCWriter(path_or_h5file, mode=m)
Construct(m, t) ==
    /\ pc = "new"
    /\ pc' = "open"
    /\ mode' = m
    /\ target' = t
    /\ LET c == Opened(m, t, disk)
       IN /\ top' = c.top
          /\ events' = c.events
          /\ logs' = c.logs
          /\ attrs' = c.attrs
          /\ before' = c
    /\ UNCHANGED <<disk, hist, callerMeta>>

\* writer.store_feature(feat, data)
StoreFeature(feat, data) ==
    /\ pc = "open"
    /\ LET r == store_feature(mode, top, events, feat, data)
       IN /\ top' = r.top
          /\ events' = r.events
          /\ hist' = Append(hist, [op |-> "store_feature", feat |-> feat,
                                    data |-> data, err |-> r.err,
                                    offset |-> r.offset, hits |-> r.hits])
    /\ before' = Content
    /\ UNCHANGED <<pc, mode, target, logs, attrs, disk, callerMeta>>

\* writer.write_ragged(group=h5file["events"], name="contour", data=data),
\* called directly
WriteRagged(data) ==
    /\ pc = "open"
    /\ "events" \in top
    /\ LET w == write_ragged(events, "contour", data)
       IN /\ events' = w.group
          /\ hist' = Append(hist, [op |-> "write_ragged", feat |-> "contour",
                                    data |-> data, err |-> w.err,
                                    offset |-> w.offset, hits |-> w.hits])
    /\ before' = Content
    /\ UNCHANGED <<pc, mode, target, top, logs, attrs, disk, callerMeta>>

\* writer.store_metadata(meta, version_brand)
StoreMetadata(meta, version_brand) ==
    /\ pc = "open"
    /\ LET r == store_metadata(attrs, meta, version_brand)
       IN /\ attrs' = r.attrs
          /\ callerMeta' = r.caller
          /\ hist' = Append(hist, [op |-> "store_metadata", meta |-> meta,
                                    version_brand |-> version_brand,
                                    err |-> r.err])
    /\ before' = Content
    /\ UNCHANGED <<pc, mode, target, top, events, logs, disk>>

\* writer.store_log(name, lines)
StoreLog(name, lines) ==
    /\ pc = "open"
    /\ LET w == write_text(mode, logs, name, lines)
       IN /\ logs' = w.group
          /\ hist' = Append(hist, [op |-> "store_log", name |-> name,
                                    lines |-> lines, err |-> NoError,
                                    offset |-> w.offset])
    /\ top' = top \cup {"logs"}
    /\ before' = Content
    /\ UNCHANGED <<pc, mode, target, events, attrs, disk, callerMeta>>

\* the number of the next call: its data are Batch(CallNo, n)
CallNo == Len(hist) + 1

----------------------------------------------------------------------------
(* Scalar features: appends *)

\* scalar data: a single number, or a 1-d array of 1..MaxBatch events
ScalarData(c) ==
    {[ndim |-> 0, trail |-> <<>>, rows |-> 1000 * c, dtype |-> "float64"]}
    \cup {[ndim |-> 1, trail |-> <<>>, rows |-> Batch(c, n),
           dtype |-> "float64"] : n \in 1..MaxBatch}

NextScalar ==
    \/ \E m \in Modes, t \in {"path", "handle"} : Construct(m, t)
    \/ \E feat \in ScalarFeatures, data \in ScalarData(CallNo) :
          /\ Len(hist) < MaxCalls
          /\ StoreFeature(feat, data)

SpecScalar == Init /\ [][NextScalar]_vars

Last == hist[Len(hist)]

\* the rows of the batches stored under feat by calls 1..k, in call order
RECURSIVE Stored(_, _)
Stored(feat, k) ==
    IF k = 0 THEN <<>>
    ELSE Stored(feat, k - 1) \o
         (IF hist[k].op = "store_feature" /\ hist[k].feat = feat
          THEN atleast_1d(hist[k].data).rows ELSE <<>>)

\* the rows feat held when the writer was constructed
Initial(feat) ==
    LET c == Opened(mode, target, disk)
    IN IF feat \in DOMAIN c.events THEN c.events[feat].rows ELSE <<>>

\* C1: in append mode the array of a scalar feature is the concatenation,
\* in call order, of the batches written to it (after what the container
\* held at construction): N events then M events give N+M rows, the first N
\* the first batch and the last M the second.
C1_AppendConcatenates ==
    (pc = "open" /\ mode = "append") =>
        \A feat \in ScalarFeatures :
            /\ (feat \in DOMAIN events) =>
                  events[feat].rows = Initial(feat) \o Stored(feat, Len(hist))
            /\ (feat \notin DOMAIN events) =>
                  Initial(feat) \o Stored(feat, Len(hist)) = <<>>

\* two batches were appended to one scalar feature
C1_Witness ==
    /\ pc = "open" /\ mode = "append" /\ Len(hist) >= 2
    /\ hist[1].feat = "area_um" /\ hist[2].feat = "area_um"
    /\ Len(atleast_1d(hist[1].data).rows) = 2
    /\ Len(events["area_um"].rows) = 2 + Len(atleast_1d(hist[2].data).rows)

----------------------------------------------------------------------------
(* Multi-dimensional data: the block-wise write *)

\* calls made on one writer when the batches are several blocks long
MaxBlockCalls == 2

\* event counts around the block boundaries
BlockLens ==
    (0..MaxBatch) \cup {CHUNK_SIZE - 1, CHUNK_SIZE, CHUNK_SIZE + 1,
                        2 * CHUNK_SIZE, 2 * CHUNK_SIZE + 1}

\* image data: L frames of 2 x 2 pixels
ImageStack(c, L) ==
    [ndim |-> 3, trail |-> <<2, 2>>, rows |-> Batch(c, L), dtype |-> "uint8"]

NextBlocks ==
    \/ \E m \in Modes, t \in {"path", "handle"} : Construct(m, t)
    \/ \E L \in BlockLens :
          /\ Len(hist) < MaxBlockCalls
          /\ StoreFeature("image", ImageStack(CallNo, L))

SpecBlocks == Init /\ [][NextBlocks]_vars

\* dset[offset:] = data as one write, on the rows the dataset held
BulkWrite(old, offset, rows) ==
    [i \in 1..(offset + Len(rows)) |->
        IF i <= offset THEN old[i] ELSE rows[i - offset]]

\* C2: for multi-dimensional data of any event count L and any offset, the
\* block-wise loop writes every index offset..offset+L-1 exactly once, with
\* data[i] at offset+i, writes no index below offset, and leaves the array
\* the single bulk write dset[offset:] = data would leave.
C2_BlocksEqualBulk ==
    (hist # <<>> /\ Last.op = "store_feature" /\ Last.feat = "image"
        /\ Last.err = NoError) =>
        LET ev == ReplaceDelete(mode, before.events, "image", Last.data)
            old == IF "image" \in DOMAIN ev THEN ev["image"].rows ELSE <<>>
            L == Len(Last.data.rows)
        IN /\ Last.offset = Len(old)
           /\ DOMAIN Last.hits = 1..(Last.offset + L)
           /\ \A i \in DOMAIN Last.hits :
                 Last.hits[i] = IF i > Last.offset THEN 1 ELSE 0
           /\ events["image"].rows = BulkWrite(old, Last.offset, Last.data.rows)

\* two full blocks and a remainder were written behind a block and a
\* remainder
C2_Witness ==
    /\ Len(hist) = 2 /\ Last.err = NoError
    /\ Last.offset = CHUNK_SIZE + 1
    /\ Len(Last.data.rows) = 2 * CHUNK_SIZE + 1
    /\ Len(events["image"].rows) = 3 * CHUNK_SIZE + 2

----------------------------------------------------------------------------
(* Ragged data: contours *)

\* calls made on one writer that stores contours
MaxRaggedCalls == 3
\* contours in one call
MaxRagged == 4

\* the contour of event j of call c: 1, 2 or 3 points of two coordinates
Contour(c, j) ==
    [ndim |-> 2, trail |-> <<2>>, rows |-> Batch(10 * c + j, 1 + ((c + j) % 3)),
     dtype |-> "int64"]

\* contour data: a list of 0..MaxRagged contours, or one contour by itself
RaggedData(c) ==
    {[islist |-> TRUE, list |-> [j \in 1..k |-> Contour(c, j)]] :
        k \in 0..MaxRagged}
    \cup {[islist |-> FALSE, array |-> Contour(c, 1)]}

NextRagged ==
    \/ \E m \in Modes, t \in {"path", "handle"} : Construct(m, t)
    \/ \E data \in RaggedData(CallNo) :
          /\ Len(hist) < MaxRaggedCalls
          /\ StoreFeature("contour", data)
    \/ \E data \in RaggedData(CallNo) :
          /\ Len(hist) < MaxRaggedCalls
          /\ WriteRagged(data)

SpecRagged == Init /\ [][NextRagged]_vars

\* the decimal strings "0", "1", ... in order
Decimal ==
    <<"0", "1", "2", "3", "4", "5", "6", "7", "8", "9", "10", "11", "12",
      "13", "14", "15", "16", "17", "18", "19", "20", "21", "22", "23", "24",
      "25", "26", "27", "28", "29", "30", "31", "32", "33", "34", "35">>

\* the names "a" .. "b-1"
DecimalNames(a, b) == {Decimal[i + 1] : i \in a..(b - 1)}

\* the entries of the contour group of /events ev
Entries(ev) == IF "contour" \in DOMAIN ev THEN ev["contour"].items ELSE Empty

\* the events of ragged data
Events(data) == IF data.islist THEN data.list ELSE <<data.array>>

\* the last call stored contours
RaggedCall ==
    /\ hist # <<>>
    /\ Last.op \in {"store_feature", "write_ragged"}
    /\ Last.feat = "contour"

\* what a ragged call that finds count entries must leave: the old entries
\* as they were and its k events, in order, under the names count..count+k-1
AddedAt(old, count, data) ==
    LET k == Len(Events(data))
    IN /\ Last.err = NoError
       /\ DOMAIN Entries(events) = DOMAIN old \cup DecimalNames(count, count + k)
       /\ \A n \in DOMAIN old : Entries(events)[n] = old[n]
       /\ \A j \in 1..k :
             /\ Entries(events)[Decimal[count + j]].rows = Events(data)[j].rows
             /\ Entries(events)[Decimal[count + j]].trail = Events(data)[j].trail

\* C3 as stated: in every mode the names are "0".."n-1" and each call adds
\* its k events under count..count+k-1, count being the number of entries
\* before the call, keeping every existing entry.
C3_AsStated ==
    /\ DOMAIN Entries(events) =
           DecimalNames(0, Cardinality(DOMAIN Entries(events)))
    /\ RaggedCall =>
           AddedAt(Entries(before.events),
                   Cardinality(DOMAIN Entries(before.events)), Last.data)

\* C3, amended: the names are always "0".."n-1", n the number of entries of
\* the group; in append and reset mode each call adds its k events under
\* count..count+k-1 and keeps every existing entry; in replace mode the
\* existing group is deleted first by store_feature (not by a direct
\* write_ragged), so the call leaves only its own k events under 0..k-1.
C3_DenseNames ==
    /\ DOMAIN Entries(events) =
           DecimalNames(0, Cardinality(DOMAIN Entries(events)))
    /\ RaggedCall =>
           IF mode = "replace" /\ Last.op = "store_feature"
           THEN AddedAt(Empty, 0, Last.data)
           ELSE AddedAt(Entries(before.events),
                        Cardinality(DOMAIN Entries(before.events)), Last.data)

\* a call in append mode added the entries "9", "10" and "11" behind nine
\* existing ones
C3_Witness ==
    /\ RaggedCall /\ mode = "append" /\ Last.op = "store_feature"
    /\ Cardinality(DOMAIN Entries(before.events)) = 9
    /\ Len(Events(Last.data)) >= 3
    /\ "11" \in DOMAIN Entries(events)

----------------------------------------------------------------------------
(* Scalar, image and ragged features in every mode *)

\* image data: a stack of 1..MaxBatch frames of 2 x 2 or 3 x 2 pixels, a
\* single frame of 2 x 3 pixels, or a stack of boolean 2 x 2 masks
ImageData(c) ==
    {[ndim |-> 3, trail |-> tr, rows |-> Batch(c, L), dtype |-> "uint8"] :
        tr \in {<<2, 2>>, <<3, 2>>}, L \in 1..MaxBatch}
    \cup {[ndim |-> 2, trail |-> <<3>>, rows |-> <<1000 * c, 1000 * c>>,
           dtype |-> "uint8"]}
    \cup {[ndim |-> 3, trail |-> <<2, 2>>, rows |-> [i \in 1..L |-> i % 2],
           dtype |-> "bool"] : L \in 1..MaxBatch}

\* lists of contours as short as the other batches
ShortRagged(c) ==
    {d \in RaggedData(c) : d.islist => Len(d.list) <= MaxBatch}

\* the data each of the three kinds of feature is stored with
FeatureData(feat, c) ==
    CASE feat \in ScalarFeatures -> ScalarData(c)
      [] feat = "mask" -> ImageData(c)
      [] feat = "contour" -> ShortRagged(c)

NextFeatures ==
    \/ \E m \in Modes, t \in {"path", "handle"} : Construct(m, t)
    \/ \E feat \in {"deform", "mask", "contour"} :
          \E data \in FeatureData(feat, CallNo) :
              /\ Len(hist) < MaxBlockCalls
              /\ StoreFeature(feat, data)

SpecFeatures == Init /\ [][NextFeatures]_vars

\* the shape of a dataset
Shape(dset) == <<Len(dset.rows)>> \o dset.trail

\* the shape B and the values of the array that scalar or image data are
\* stored as: a number is one event, a single 2-d frame a stack of one
\* frame, a boolean mask 0 / 255
ShapeB(data) ==
    CASE data.ndim = 0 -> <<1>>
      [] data.ndim = 1 -> <<Len(data.rows)>>
      [] data.ndim = 2 -> <<1, Len(data.rows)>> \o data.trail
      [] data.ndim = 3 -> <<Len(data.rows)>> \o data.trail

ValuesB(data) ==
    CASE data.ndim = 0 -> <<data.rows>>
      [] data.ndim = 1 -> data.rows
      [] data.ndim = 2 -> <<data.rows[1]>>
      [] data.ndim = 3 ->
            [i \in 1..Len(data.rows) |->
                IF data.dtype = "bool"
                THEN (IF data.rows[i] = 1 THEN 255 ELSE 0)
                ELSE data.rows[i]]

\* the last call stored, in replace mode, a feature other than trace that
\* /events already held
ReplacingCall ==
    /\ hist # <<>> /\ Last.op = "store_feature" /\ mode = "replace"
    /\ Last.feat # "trace"
    /\ Last.feat \in DOMAIN before.events

\* C4: in replace mode, storing a feature other than trace that /events
\* already holds leaves one object of that name with the shape and the
\* contents of the new data only: nothing of the earlier write survives.
C4_ReplaceLeavesOnlyNew ==
    ReplacingCall =>
        /\ Last.err = NoError
        /\ Last.feat \in DOMAIN events
        /\ IF Last.feat = "contour"
           THEN AddedAt(Empty, 0, Last.data)
           ELSE /\ events[Last.feat].kind = "dataset"
                /\ Shape(events[Last.feat]) = ShapeB(Last.data)
                /\ events[Last.feat].rows = ValuesB(Last.data)

\* a mask of shape (2, 2, 2) was replaced by one frame of 3 x 2 pixels
C4_Witness ==
    /\ ReplacingCall /\ Last.feat = "mask"
    /\ Shape(before.events["mask"]) = <<2, 2, 2>>
    /\ Shape(events["mask"]) = <<1, 3, 2>>

\* C8 as stated: a writer constructed with mode "reset" starts from an empty
\* container, whether the target is a path or an open handle: nothing the
\* target held is present, and the first write of a feature is at offset 0.
C8_AsStated ==
    (pc = "open" /\ mode = "reset") =>
        /\ hist = <<>> =>
              /\ top = {}
              /\ DOMAIN events = {}
              /\ DOMAIN logs = {}
              /\ DOMAIN attrs = {}
        /\ (Len(hist) = 1 /\ Last.op # "store_metadata"
                /\ Last.err = NoError) => Last.offset = 0

\* the part of C8 that the code keeps: with the target given as a path
C8_PathResetStartsEmpty ==
    (pc = "open" /\ mode = "reset" /\ target = "path") =>
        /\ hist = <<>> =>
              /\ top = {}
              /\ DOMAIN events = {}
              /\ DOMAIN logs = {}
              /\ DOMAIN attrs = {}
        /\ (Len(hist) = 1 /\ Last.op # "store_metadata"
                /\ Last.err = NoError) => Last.offset = 0

----------------------------------------------------------------------------
(* Traces *)

\* the channel names the calls use: one that OldContent holds, one that it
\* does not hold, and one outside the vocabulary
TraceNames == {"fl1_raw", "fl3_raw", "fl9_raw"}

\* the orders of one or two different channel names
TraceKeys ==
    {<<a>> : a \in TraceNames}
    \cup {<<ab[1], ab[2]>> :
             ab \in {x \in TraceNames \X TraceNames : x[1] # x[2]}}

\* the traces of channel j of call c: 1..MaxBatch events of 3 samples
\* (variant 1..MaxBatch), or one event of 4 samples given as a 1-d array
\* (variant 0)
TraceArr(c, j, variant) ==
    IF variant = 0
    THEN [ndim |-> 1, trail |-> <<>>,
          rows |-> [i \in 1..4 |-> 1000 * (10 * c + j)], dtype |-> "int16"]
    ELSE [ndim |-> 2, trail |-> <<3>>, rows |-> Batch(10 * c + j, variant),
          dtype |-> "int16"]

\* trace data: a mapping from channel names to arrays, in insertion order
TraceData(c) ==
    {[j \in 1..Len(ks) |-> [name |-> ks[j], arr |-> TraceArr(c, j, v)]] :
        ks \in TraceKeys, v \in 0..MaxBatch}

NextTrace ==
    \/ \E m \in Modes, t \in {"path", "handle"} : Construct(m, t)
    \/ \E data \in TraceData(CallNo) :
          /\ Len(hist) < MaxBlockCalls
          /\ StoreFeature("trace", data)

SpecTrace == Init /\ [][NextTrace]_vars

\* the channels of the trace group of /events ev
Channels(ev) == IF "trace" \in DOMAIN ev THEN ev["trace"].items ELSE Empty

\* the rows and the per-event shape a channel's array is stored as
TraceRows(arr) == IF arr.ndim = 1 THEN <<arr.rows[1]>> ELSE arr.rows

TraceTrail(arr) == IF arr.ndim = 1 THEN <<Len(arr.rows)>> ELSE arr.trail

\* the last call stored traces
TraceCall == hist # <<>> /\ Last.op = "store_feature" /\ Last.feat = "trace"

\* the last call stored traces with a channel name outside the vocabulary
UnknownChannelCall ==
    /\ TraceCall
    /\ \E i \in 1..Len(Last.data) : Last.data[i].name \notin FLUOR_TRACES

\* the position of the first channel name outside the vocabulary
FirstUnknown(data) ==
    CHOOSE p \in 1..Len(data) :
        /\ data[p].name \notin FLUOR_TRACES
        /\ \A q \in 1..(p - 1) : data[q].name \in FLUOR_TRACES

\* channel n is the same in /events as it was before the call
SameChannel(n) ==
    /\ n \in DOMAIN Channels(events) <=> n \in DOMAIN Channels(before.events)
    /\ n \in DOMAIN Channels(events) =>
          Channels(events)[n] = Channels(before.events)[n]

\* C5 as stated: a trace call with an unknown channel name fails with the
\* unknown-trace-channel error and creates and deletes no array, in every
\* mode and order of the names.
C5_AsStated ==
    UnknownChannelCall =>
        /\ Last.err = "unknown trace key"
        /\ DOMAIN Channels(events) = DOMAIN Channels(before.events)
        /\ DOMAIN events \ {"trace"} = DOMAIN before.events \ {"trace"}

\* C5, amended: a trace call with an unknown channel name fails, with the
\* unknown-trace-channel error unless the write of an earlier channel
\* failed first.  For the unknown name and every name after it in data no
\* array is created or written (in replace mode an existing one has been
\* deleted); every channel before the unknown name has been written; the
\* channels data does not name are untouched.
C5_FailsAtFirstUnknown ==
    UnknownChannelCall =>
        LET data == Last.data
            p == FirstUnknown(data)
            old == Channels(before.events)
        IN /\ Last.err \in {"unknown trace key", "broadcast"}
           /\ Last.err = "broadcast" =>
                 /\ mode # "replace"
                 /\ \E q \in 1..(p - 1) :
                       /\ data[q].name \in DOMAIN old
                       /\ old[data[q].name].trail # TraceTrail(data[q].arr)
           /\ \A i \in p..Len(data) :
                 IF mode = "replace"
                 THEN data[i].name \notin DOMAIN Channels(events)
                 ELSE SameChannel(data[i].name)
           /\ Last.err = "unknown trace key" =>
                 \A i \in 1..(p - 1) :
                    /\ data[i].name \in DOMAIN Channels(events)
                    /\ Channels(events)[data[i].name].rows =
                          (IF mode # "replace" /\ data[i].name \in DOMAIN old
                           THEN old[data[i].name].rows ELSE <<>>)
                          \o TraceRows(data[i].arr)
           /\ \A n \in (DOMAIN old \cup DOMAIN Channels(events)) \ Keys(data) :
                 SameChannel(n)

\* a call failed at an unknown name after it had created a channel
C5_Witness ==
    /\ UnknownChannelCall /\ Last.err = "unknown trace key"
    /\ Len(Last.data) = 2 /\ Last.data[1].name = "fl3_raw"
    /\ "fl3_raw" \notin DOMAIN Channels(before.events)
    /\ "fl3_raw" \in DOMAIN Channels(events)

\* C10: in replace mode a trace call deletes and rewrites only the channels
\* data names: every other channel keeps its length and contents and the
\* trace group is not deleted; when the call returns, each channel data
\* names holds the newly written rows only.
C10_ReplaceTouchesNamedChannels ==
    (TraceCall /\ mode = "replace") =>
        /\ \A n \in (DOMAIN Channels(before.events)
                        \cup DOMAIN Channels(events)) \ Keys(Last.data) :
              SameChannel(n)
        /\ "trace" \in DOMAIN before.events =>
              "trace" \in DOMAIN events /\ events["trace"].kind = "group"
        /\ Last.err = NoError =>
              \A i \in 1..Len(Last.data) :
                 /\ Last.data[i].name \in DOMAIN Channels(events)
                 /\ Channels(events)[Last.data[i].name].rows =
                       TraceRows(Last.data[i].arr)
                 /\ Channels(events)[Last.data[i].name].trail =
                       TraceTrail(Last.data[i].arr)

\* a call in replace mode rewrote fl1_raw with traces of another length and
\* created fl3_raw beside the untouched fl2_raw
C10_Witness ==
    /\ TraceCall /\ mode = "replace" /\ Last.err = NoError
    /\ Keys(Last.data) = {"fl1_raw", "fl3_raw"}
    /\ {"fl1_raw", "fl2_raw"} \subseteq DOMAIN Channels(before.events)
    /\ Channels(events)["fl1_raw"].trail = <<4>>
    /\ Channels(before.events)["fl1_raw"].trail = <<3>>
    /\ Channels(events)["fl2_raw"] = Channels(before.events)["fl2_raw"]

----------------------------------------------------------------------------
(* Metadata *)

\* the version the caller gives in call c: "1.0", "2.0", ...
CallerVersion(c) == Decimal[c + 1] \o ".0"

Section(sec, keys, txt) ==
    [sec |-> sec,
     items |-> [j \in 1..Len(keys) |->
                  [key |-> keys[j], value |-> [kind |-> "str", txt |-> txt]]]]

VersionSection(kind, c) ==
    [sec |-> "setup",
     items |-> <<[key |-> "software version",
                  value |-> [kind |-> kind, txt |-> CallerVersion(c)]]>>]

\* meta mappings: without and with a software version (str or bytes), with
\* a user section, and with an unregistered section or key before or after
\* valid sections
MetaData(c) ==
    {<<>>,
     <<VersionSection("str", c)>>,
     <<VersionSection("bytes", c)>>,
     <<Section("setup", <<"identifier">>, "id")>>,
     <<Section("experiment", <<"sample">>, "beads")>>,
     <<Section("user", <<"my key">>, "anything")>>,
     <<VersionSection("str", c), Section("analysis", <<"sample">>, "x")>>,
     <<Section("analysis", <<"sample">>, "x"), VersionSection("str", c)>>,
     <<Section("user", <<"my key">>, "anything"),
       Section("setup", <<"software version", "my key">>, CallerVersion(c))>>,
     <<Section("experiment", <<"sample">>, "beads"),
       Section("setup", <<"my key">>, "x")>>}

NextMeta ==
    \/ \E m \in Modes, t \in {"path", "handle"} : Construct(m, t)
    \/ \E meta \in MetaData(CallNo), vb \in BOOLEAN :
          /\ Len(hist) < MaxBlockCalls
          /\ StoreMetadata(meta, vb)

SpecMeta == Init /\ [][NextMeta]_vars

VersionKey == "setup:software version"

\* the last call stored metadata
MetaCall == hist # <<>> /\ Last.op = "store_metadata"

\* the last call stored metadata on a container whose version was stamped
StampedCall == MetaCall /\ VersionKey \in DOMAIN before.attrs

\* C6 as stated: once the version attribute is stamped, a call that gives
\* no software version leaves it unchanged, with and without branding; it
\* changes only in a call that gives one, and then, with branding, it is
\* "<supplied> | dclab <version>".
C6_AsStated ==
    StampedCall =>
        /\ VersionKey \in DOMAIN attrs
        /\ ~HasVersion(Last.meta) => attrs[VersionKey] = before.attrs[VersionKey]
        /\ (HasVersion(Last.meta) /\ Last.version_brand
                /\ Last.err = NoError) =>
              attrs[VersionKey] =
                 GivenVersion(Last.meta).txt \o " | dclab " \o version

\* the part of C6 that the code keeps: once stamped, the version attribute
\* stays, and a call that gives no software version leaves it unchanged
C6_KeptWithoutVersion ==
    StampedCall =>
        /\ VersionKey \in DOMAIN attrs
        /\ ~HasVersion(Last.meta) => attrs[VersionKey] = before.attrs[VersionKey]
        /\ (HasVersion(Last.meta) /\ Last.version_brand
                /\ Last.err = NoError
                /\ GivenVersion(Last.meta).kind = "str") =>
              attrs[VersionKey] =
                 GivenVersion(Last.meta).txt \o " | dclab " \o version

\* meta has a section that is neither user nor registered, or a registered
\* section with an unregistered key
Invalid(meta) ==
    \E i \in 1..Len(meta) :
        /\ meta[i].sec # "user"
        /\ \/ meta[i].sec \notin {"experiment", "setup"}
           \/ \E j \in 1..Len(meta[i].items) :
                 meta[i].items[j].key \notin CFG_METADATA[meta[i].sec]

\* C9: store_metadata fails on a meta with an unregistered section or key
\* before any attribute is written: the root attributes and the caller's
\* mapping are unchanged, whatever the order of the sections.
C9_InvalidMetaWritesNothing ==
    (MetaCall /\ Invalid(Last.meta)) =>
        /\ Last.err \in {"meta section not defined", "meta key not defined"}
        /\ attrs = before.attrs
        /\ callerMeta = Last.meta

\* a call failed on an unregistered key behind a user section, on a
\* container without a version stamp and with branding
C9_Witness ==
    /\ MetaCall /\ Invalid(Last.meta) /\ Last.version_brand
    /\ Last.meta[1].sec = "user"
    /\ Last.err = "meta key not defined"
    /\ VersionKey \notin DOMAIN before.attrs

----------------------------------------------------------------------------
(* Logs *)

\* a str of n times the code point cp
Str(cp, n) == [kind |-> "str", chars |-> [i \in 1..n |-> cp]]

\* lines: a short line, then a short and a 101 byte line, a 100 byte line,
\* 34 euro signs (102 bytes), a str by itself, 101 bytes given as bytes by
\* themselves, and no line
LogLines(c) ==
    {[single |-> FALSE, list |-> <<Str(97, c)>>],
     [single |-> FALSE, list |-> <<Str(97, c), Str(120, 101)>>],
     [single |-> FALSE, list |-> <<Str(120, 100)>>],
     [single |-> FALSE, list |-> <<Str(8364, 34)>>],
     [single |-> TRUE, line |-> Str(233, c)],
     [single |-> TRUE,
      line |-> [kind |-> "bytes", chars |-> [i \in 1..101 |-> 120]]],
     [single |-> FALSE, list |-> <<>>]}

NextLog ==
    \/ \E m \in Modes, t \in {"path", "handle"} : Construct(m, t)
    \/ \E lines \in LogLines(CallNo) :
          /\ Len(hist) < MaxBlockCalls
          /\ StoreLog("dclab-log", lines)

SpecLog == Init /\ [][NextLog]_vars

\* the last call stored a log
LogCall == hist # <<>> /\ Last.op = "store_log"

\* the lines of the last call
LastLines ==
    IF Last.lines.single THEN <<Last.lines.line>> ELSE Last.lines.list

\* C7 as stated: the width of a log array that the writer created is at
\* least 100 and at least the byte length of every line written to it, so
\* every stored entry holds the full UTF-8 bytes of its line, also when a
\* later call writes a longer line than all earlier ones.
C7_AsStated ==
    (LogCall /\ Last.name \notin DOMAIN Opened(mode, target, disk).logs) =>
        LET d == logs[Last.name]
        IN /\ d.width >= 100
           /\ Len(d.rows) = Last.offset + Len(LastLines)
           /\ \A i \in 1..Len(LastLines) :
                 /\ d.width >= Len(LineBytes(LastLines[i]))
                 /\ d.rows[Last.offset + i] = LineBytes(LastLines[i])

----------------------------------------------------------------------------
(* The writer with all its operations *)

\* the data any feature is stored with
AnyData(feat, c) ==
    CASE feat = "image" -> {ImageStack(c, L) : L \in BlockLens}
      [] feat = "contour" -> RaggedData(c)
      [] feat = "trace" -> TraceData(c)
      [] OTHER -> FeatureData(feat, c)

Next ==
    \/ \E m \in Modes, t \in {"path", "handle"} : Construct(m, t)
    \/ \E feat \in ScalarFeatures \cup {"image", "mask", "contour", "trace"} :
          \E data \in AnyData(feat, CallNo) :
              /\ Len(hist) < MaxBlockCalls
              /\ StoreFeature(feat, data)
    \/ \E data \in RaggedData(CallNo) :
          /\ Len(hist) < MaxBlockCalls
          /\ WriteRagged(data)
    \/ \E meta \in MetaData(CallNo), vb \in BOOLEAN :
          /\ Len(hist) < MaxBlockCalls
          /\ StoreMetadata(meta, vb)
    \/ \E lines \in LogLines(CallNo) :
          /\ Len(hist) < MaxBlockCalls
          /\ StoreLog("dclab-log", lines)

Spec == Init /\ [][Next]_vars

====
